---- MODULE Spec2Model ----
(***************************************************************************)
(* Model of the vectorization-iteration engine of src/src/lib.rs:          *)
(* Vectorizable::create for &[B], &mut [B] and pairs of sources, the      *)
(* Read/Write vectorizers, the MutProxy write-back guard and VectorizedIter.*)
(*                                                                         *)
(* Memory is a flat array of cells.  The borrowed slice occupies           *)
(* [slice.ptr, slice.ptr + slice.len); the cells around it are guard cells *)
(* that no correct operation may touch.  A block (a Vector value) is a     *)
(* sequence of `lanes` elements.  Option<T> is a sequence of length 0 or 1.*)
(***************************************************************************)
EXTENDS Integers, Sequences, FiniteSets, TLC

VARIABLES
    lanes,      \* V::LANES of the vector type the caller picked
    mem,        \* the memory cells
    slice,      \* the source: [kind, ptr, len]; kind "read" is &[B], "write" is &mut [B]
    pad,        \* the padding handed to vectorize_pad (None for vectorize)
    pc,         \* "start", "iter" (an iterator exists), "panic", "dropped"
    fault,      \* the panic message when pc = "panic"
    iter,       \* Option<VectorizedIter>
    held,       \* the MutProxy values the caller holds, each tagged with its block
    wrote,      \* history: the block the caller last stored in the proxy of block k
    written,    \* history: every memory cell a copy_from_slice has stored to
    last,       \* history: the last call, what it returned and what it dropped
    orig,       \* history: the memory as it was before construction
    yields,     \* history: how often get was called with each index, and how
                \* often the partial was yielded
    fwd,        \* history: the items next has returned, in order
    bwd,        \* history: the items next_back has returned, in order
    owner       \* the thread each block index is handed to (threads only)

vars == <<lanes, mem, slice, pad, pc, fault, iter, held, wrote, written, last,
          orig, yields, fwd, bwd, owner>>

----------------------------------------------------------------------------
(* Bounds of the model *)

\* The source holds at most MaxBlocks full blocks, and any remainder below the
\* lane count after them.
MaxBlocks == 2
MaxLanes == 3
MaxN == 3

(* Program constants *)

\* isize::MAX of the target (lib.rs:389); a 32-bit target, as wide as the
\* model checker's integers.
IsizeMax == 2147483647
\* mem::size_of::<B>() for B = u32, the element type of tests::iter_mut.
SizeOfB == 4

----------------------------------------------------------------------------
(* Values *)

None == << >>
Some(x) == << x >>

\* The slice starts after MaxLanes guard cells and is followed by guard cells.
RegionStart == MaxLanes
MaxLen == MaxBlocks * MaxLanes + MaxLanes - 1
Addrs == 0 .. (RegionStart + MaxLen + MaxLanes)

\* The blocks the caller stores through a proxy: every lane is overwritten
\* with a value that names the lane.
WriteBlocks == { [j \in 1..lanes |-> 70 + j] }

\* Source contents: (0..n).collect() as in the tests, or [0; n].
Fills == {"iota", "zero"}
FillValue(f, i) == IF f = "iota" THEN i ELSE 0

InitMem(n, f) ==
    [a \in Addrs |->
        IF RegionStart <= a /\ a < RegionStart + n
        THEN FillValue(f, a - RegionStart)
        ELSE -1]

\* Padding blocks: V::default() (all zero) or a block with a distinct mark per lane.
Pads == { [j \in 1..lanes |-> 0], [j \in 1..lanes |-> 90 + j] }

----------------------------------------------------------------------------
(* Vector, MutProxy *)

\* Vector::new_unchecked: reads LANES contiguous elements from `input`.
new_unchecked(m, input) == [j \in 1..lanes |-> m[input + j - 1]]

\* Faulty variant: the whole local block is copied back, whatever restore.len() is.
MutProxy_drop_whole_block(self, m) ==
    [a \in DOMAIN m |->
        IF self.restore.ptr <= a /\ a < self.restore.ptr + lanes
        THEN self.data[a - self.restore.ptr + 1]
        ELSE m[a]]

\* impl Drop for MutProxy: restore.copy_from_slice(&data[..restore.len()]).
MutProxy_drop(self, m) ==
    [a \in DOMAIN m |->
        IF self.restore.ptr <= a /\ a < self.restore.ptr + self.restore.len
        THEN self.data[a - self.restore.ptr + 1]
        ELSE m[a]]

\* The cells MutProxy::drop stores to.
RestoreCells(self) == self.restore.ptr .. (self.restore.ptr + self.restore.len - 1)

----------------------------------------------------------------------------
(* Partial *)

\* P = (): no partial slot.  P = Option<V>: the slot.
UnitPartial == [ty |-> "unit", val |-> None]
OptionPartial(v) == [ty |-> "option", val |-> v]

Partial_take_partial(p) ==
    IF p.ty = "unit"
    THEN [self |-> p, ret |-> None]
    ELSE [self |-> [p EXCEPT !.val = None], ret |-> p.val]

Partial_size(p) ==
    IF p.ty = "unit" THEN 0
    ELSE IF p.val # None THEN 1 ELSE 0

----------------------------------------------------------------------------
(* Vectorizers *)

\* Faulty variant: the block index is used as an element offset (the LANES factor is lost).
ReadVectorizer_get_unit_stride(self, idx, m) ==
    new_unchecked(m, self.start + idx)

ReadVectorizer_get(self, idx, m) ==
    new_unchecked(m, self.start + lanes * idx)

\* Faulty variant: the block index is used as an element offset on the mutable path.
WriteVectorizer_get_unit_stride(self, idx, m) ==
    LET ptr == self.start + idx
    IN  [data |-> new_unchecked(m, ptr),
         restore |-> [ptr |-> ptr, len |-> lanes]]

WriteVectorizer_get(self, idx, m) ==
    LET ptr == self.start + lanes * idx
    IN  [data |-> new_unchecked(m, ptr),
         restore |-> [ptr |-> ptr, len |-> lanes]]

RECURSIVE Vectorizer_get(_, _, _)

\* Faulty variant: the second side is read one block further on.
Tuple_get_skewed(self, idx, m) ==
    <<Vectorizer_get(self.a, idx, m), Vectorizer_get(self.b, idx + 1, m)>>

\* <(A, B) as Vectorizer>::get
Tuple_get(self, idx, m) ==
    <<Vectorizer_get(self.a, idx, m), Vectorizer_get(self.b, idx, m)>>

\* Vectorizer::get of the vectorizer at hand: of a shared slice, of a mutable
\* slice, or of a pair of vectorizers.
Vectorizer_get(self, idx, m) ==
    IF self.kind = "read" THEN ReadVectorizer_get(self, idx, m)
    ELSE IF self.kind = "write" THEN WriteVectorizer_get(self, idx, m)
    ELSE Tuple_get(self, idx, m)

----------------------------------------------------------------------------
(* Vectorizable::create *)

Panicked(msg) == [panic |-> msg]
Created(v, n, p) == [panic |-> "", vectorizer |-> v, len |-> n, partial |-> p]

\* Faulty variant: the padding is returned as the partial without the tail copied into it.
Slice_create_no_tail_copy(self, padding, m) ==
    LET len == self.len
        rest == len % lanes
        main == len - rest
        me == [kind |-> "read", start |-> self.ptr]
    IN  IF ~(len * SizeOfB <= IsizeMax) THEN Panicked("Slice too huge")
        ELSE IF rest = 0 THEN Created(me, main \div lanes, None)
        ELSE IF padding # None THEN Created(me, main \div lanes, Some(padding[1]))
        ELSE Panicked("Data to vectorize not divisible by lanes")

\* <&[B] as Vectorizable>::create
Slice_create(self, padding, m) ==
    LET len == self.len
        rest == len % lanes
        main == len - rest
        start == self.ptr
        me == [kind |-> "read", start |-> start]
    IN  IF ~(len * SizeOfB <= IsizeMax) THEN Panicked("Slice too huge")
        ELSE IF rest = 0 THEN Created(me, main \div lanes, None)
        ELSE IF padding # None
        THEN Created(me, main \div lanes,
                Some([j \in 1..lanes |->
                        IF j <= rest THEN m[start + main + j - 1]
                        ELSE padding[1][j]]))
        ELSE Panicked("Data to vectorize not divisible by lanes")

\* Faulty variant: the tail is not copied into the padding before the proxy is built.
SliceMut_create_no_tail_copy(self, padding, m) ==
    LET len == self.len
        rest == len % lanes
        main == len - rest
        start == self.ptr
        me == [kind |-> "write", start |-> start]
    IN  IF ~(len * SizeOfB <= IsizeMax) THEN Panicked("Slice too huge")
        ELSE IF rest = 0 THEN Created(me, main \div lanes, None)
        ELSE IF padding # None
        THEN Created(me, main \div lanes,
                Some([data |-> padding[1],
                      restore |-> [ptr |-> start + main, len |-> len - main]]))
        ELSE Panicked("Data to vectorize not divisible by lanes")

\* Faulty variant: the partial's restore region is taken at the start of the
\* region, not after its full blocks.
SliceMut_create_restore_from_start(self, padding, m) ==
    LET len == self.len
        rest == len % lanes
        main == len - rest
        start == self.ptr
        me == [kind |-> "write", start |-> start]
    IN  IF ~(len * SizeOfB <= IsizeMax) THEN Panicked("Slice too huge")
        ELSE IF rest = 0 THEN Created(me, main \div lanes, None)
        ELSE IF padding # None
        THEN Created(me, main \div lanes,
                Some([data |-> [j \in 1..lanes |->
                                    IF j <= rest THEN m[start + main + j - 1]
                                    ELSE padding[1][j]],
                      restore |-> [ptr |-> start, len |-> len - main]]))
        ELSE Panicked("Data to vectorize not divisible by lanes")

\* Faulty variant: the partial's restore region is a whole block, not the remainder.
SliceMut_create_full_restore(self, padding, m) ==
    LET len == self.len
        rest == len % lanes
        main == len - rest
        start == self.ptr
        me == [kind |-> "write", start |-> start]
    IN  IF ~(len * SizeOfB <= IsizeMax) THEN Panicked("Slice too huge")
        ELSE IF rest = 0 THEN Created(me, main \div lanes, None)
        ELSE IF padding # None
        THEN Created(me, main \div lanes,
                Some([data |-> [j \in 1..lanes |->
                                    IF j <= rest THEN m[start + main + j - 1]
                                    ELSE padding[1][j]],
                      restore |-> [ptr |-> start + main, len |-> lanes]]))
        ELSE Panicked("Data to vectorize not divisible by lanes")

\* Faulty variant: an unaligned region without padding loses its tail silently.
SliceMut_create_drop_tail(self, padding, m) ==
    LET len == self.len
        rest == len % lanes
        main == len - rest
        start == self.ptr
        me == [kind |-> "write", start |-> start]
    IN  IF ~(len * SizeOfB <= IsizeMax) THEN Panicked("Slice too huge")
        ELSE IF rest = 0 THEN Created(me, main \div lanes, None)
        ELSE IF padding # None
        THEN Created(me, main \div lanes,
                Some([data |-> [j \in 1..lanes |->
                                    IF j <= rest THEN m[start + main + j - 1]
                                    ELSE padding[1][j]],
                      restore |-> [ptr |-> start + main, len |-> len - main]]))
        ELSE Created(me, main \div lanes, None)

\* <&mut [B] as Vectorizable>::create
SliceMut_create(self, padding, m) ==
    LET len == self.len
        rest == len % lanes
        main == len - rest
        start == self.ptr
        me == [kind |-> "write", start |-> start]
    IN  IF ~(len * SizeOfB <= IsizeMax) THEN Panicked("Slice too huge")
        ELSE IF rest = 0 THEN Created(me, main \div lanes, None)
        ELSE IF padding # None
        THEN Created(me, main \div lanes,
                Some([data |-> [j \in 1..lanes |->
                                    IF j <= rest THEN m[start + main + j - 1]
                                    ELSE padding[1][j]],
                      restore |-> [ptr |-> start + main, len |-> len - main]]))
        ELSE Panicked("Data to vectorize not divisible by lanes")

RECURSIVE create(_, _, _)

\* A panic raised while values are alive: unwinding drops them in the order
\* given, each an Option of an item of the given source kind.
Unwinding(msg, xs) == [panic |-> msg, unwound |-> xs]
Alive(sk, xs) == [kind |-> sk, val |-> xs]

LengthFault == "Vectorizing data of different lengths"
AsymmetryFault == "Paddings are not provided by both vectorized data"

\* Faulty variant: the block counts of the two sides are not compared.
Tuple_create_no_length_check(self, padding, m) ==
    LET ap == IF padding # None THEN Some(padding[1][1]) ELSE None
        bp == IF padding # None THEN Some(padding[1][2]) ELSE None
        a == create(self.a, ap, m)
    IN  IF a.panic # "" THEN Unwinding(a.panic, << >>)
        ELSE LET b == create(self.b, bp, m)
                 v == [kind |-> "pair", a |-> a.vectorizer, b |-> b.vectorizer]
             IN  IF b.panic # ""
                 THEN Unwinding(b.panic, <<Alive(self.a.kind, a.partial)>>)
                 ELSE IF a.partial # None /\ b.partial # None
                 THEN Created(v, a.len, Some(<<a.partial[1], b.partial[1]>>))
                 ELSE IF a.partial = None /\ b.partial = None
                 THEN Created(v, a.len, None)
                 ELSE Unwinding(AsymmetryFault,
                                <<Alive(self.a.kind, a.partial),
                                  Alive(self.b.kind, b.partial)>>)

\* Faulty variant: a partial returned by one side only is dropped and the
\* pair is created without a partial.
Tuple_create_one_sided_none(self, padding, m) ==
    LET ap == IF padding # None THEN Some(padding[1][1]) ELSE None
        bp == IF padding # None THEN Some(padding[1][2]) ELSE None
        a == create(self.a, ap, m)
    IN  IF a.panic # "" THEN Unwinding(a.panic, << >>)
        ELSE LET b == create(self.b, bp, m)
                 v == [kind |-> "pair", a |-> a.vectorizer, b |-> b.vectorizer]
             IN  IF b.panic # ""
                 THEN Unwinding(b.panic, <<Alive(self.a.kind, a.partial)>>)
                 ELSE IF a.len # b.len
                 THEN Unwinding(LengthFault,
                                <<Alive(self.b.kind, b.partial),
                                  Alive(self.a.kind, a.partial)>>)
                 ELSE IF a.partial # None /\ b.partial # None
                 THEN Created(v, a.len, Some(<<a.partial[1], b.partial[1]>>))
                 ELSE Created(v, a.len, None)

\* <(A, B) as Vectorizable>::create.  A panic of the second side's create
\* unwinds past the first side's partial; the assert_eq! unwinds past the
\* locals bp and ap, latest first; the panic of the match drops the matched
\* pair (ap, bp) in field order.
Tuple_create(self, padding, m) ==
    LET ap == IF padding # None THEN Some(padding[1][1]) ELSE None
        bp == IF padding # None THEN Some(padding[1][2]) ELSE None
        a == create(self.a, ap, m)
    IN  IF a.panic # "" THEN Unwinding(a.panic, << >>)
        ELSE LET b == create(self.b, bp, m)
                 v == [kind |-> "pair", a |-> a.vectorizer, b |-> b.vectorizer]
             IN  IF b.panic # ""
                 THEN Unwinding(b.panic, <<Alive(self.a.kind, a.partial)>>)
                 ELSE IF a.len # b.len
                 THEN Unwinding(LengthFault,
                                <<Alive(self.b.kind, b.partial),
                                  Alive(self.a.kind, a.partial)>>)
                 ELSE IF a.partial # None /\ b.partial # None
                 THEN Created(v, a.len, Some(<<a.partial[1], b.partial[1]>>))
                 ELSE IF a.partial = None /\ b.partial = None
                 THEN Created(v, a.len, None)
                 ELSE Unwinding(AsymmetryFault,
                                <<Alive(self.a.kind, a.partial),
                                  Alive(self.b.kind, b.partial)>>)

\* Vectorizable::create of the source at hand: a shared slice, a mutable
\* slice, or a pair of sources.
create(self, padding, m) ==
    IF self.kind = "read" THEN Slice_create(self, padding, m)
    ELSE IF self.kind = "write" THEN SliceMut_create(self, padding, m)
    ELSE Tuple_create(self, padding, m)

\* Vectorizable::vectorize
vectorize(self, m) ==
    LET c == create(self, None, m)
    IN  IF c.panic # "" THEN c
        ELSE IF c.partial # None THEN Panicked("assertion failed: partial.is_none()")
        ELSE [panic |-> "",
              iter |-> [partial |-> UnitPartial, vectorizer |-> c.vectorizer,
                        left |-> 0, right |-> c.len]]

\* Vectorizable::vectorize_pad
vectorize_pad(self, padding, m) ==
    LET c == create(self, Some(padding), m)
    IN  IF c.panic # "" THEN c
        ELSE [panic |-> "",
              iter |-> [partial |-> OptionPartial(c.partial), vectorizer |-> c.vectorizer,
                        left |-> 0, right |-> c.len]]

----------------------------------------------------------------------------
(* VectorizedIter.  Each method returns the iterator after the call, the   *)
(* returned Option, the values the call itself dropped, and the index it   *)
(* called the vectorizer's get with (None when it made no get call).       *)

\* Faulty variant: left is not advanced past the block that was yielded.
next_no_advance(self, m) ==
    IF self.left < self.right
    THEN [self |-> self,
          ret |-> Some(Vectorizer_get(self.vectorizer, self.left, m)),
          dropped |-> None, got |-> Some(self.left)]
    ELSE LET t == Partial_take_partial(self.partial)
         IN  [self |-> [self EXCEPT !.partial = t.self],
              ret |-> t.ret,
              dropped |-> None, got |-> None]

\* Faulty variant: the partial is taken before the main blocks, as next_back does.
next_partial_first(self, m) ==
    LET t == Partial_take_partial(self.partial)
    IN  IF t.ret # None
        THEN [self |-> [self EXCEPT !.partial = t.self], ret |-> t.ret, dropped |-> None,
              got |-> None]
        ELSE IF self.left < self.right
        THEN [self |-> [self EXCEPT !.left = self.left + 1],
              ret |-> Some(Vectorizer_get(self.vectorizer, self.left, m)),
              dropped |-> None, got |-> Some(self.left)]
        ELSE [self |-> self, ret |-> None, dropped |-> None, got |-> None]

\* Iterator::next
next(self, m) ==
    IF self.left < self.right
    THEN [self |-> [self EXCEPT !.left = self.left + 1],
          ret |-> Some(Vectorizer_get(self.vectorizer, self.left, m)),
          dropped |-> None, got |-> Some(self.left)]
    ELSE LET t == Partial_take_partial(self.partial)
         IN  [self |-> [self EXCEPT !.partial = t.self],
              ret |-> t.ret,
              dropped |-> None, got |-> None]

\* Iterator::size_hint (the lower bound; the upper bound is the same value)
size_hint(self) == self.right - self.left + Partial_size(self.partial)

\* Faulty variant: the skip is not compared with the number of main blocks left.
nth_unchecked_skip(self, n, m) ==
    next([self EXCEPT !.left = self.left + n], m)

\* Faulty variant: a skip of exactly the main blocks left takes the else branch too.
nth_skip_on_equal(self, n, m) ==
    LET main_len == self.right - self.left
    IN  IF main_len > n
        THEN next([self EXCEPT !.left = self.left + n], m)
        ELSE LET t == Partial_take_partial(self.partial)
             IN  [self |-> [self EXCEPT !.left = self.right, !.partial = t.self],
                  ret |-> None,
                  dropped |-> t.ret, got |-> None]

\* Faulty variant: skipping past the end leaves the partial in its slot.
nth_keep_partial(self, n, m) ==
    LET main_len == self.right - self.left
    IN  IF main_len >= n
        THEN next([self EXCEPT !.left = self.left + n], m)
        ELSE [self |-> [self EXCEPT !.left = self.right],
              ret |-> None,
              dropped |-> None, got |-> None]

\* Iterator::nth
nth(self, n, m) ==
    LET main_len == self.right - self.left
    IN  IF main_len >= n
        THEN next([self EXCEPT !.left = self.left + n], m)
        ELSE LET t == Partial_take_partial(self.partial)
             IN  [self |-> [self EXCEPT !.left = self.right, !.partial = t.self],
                  ret |-> None,
                  dropped |-> t.ret, got |-> None]

\* Faulty variant: the emptiness test is left <= right.
next_back_off_by_one(self, m) ==
    LET t == Partial_take_partial(self.partial)
    IN  IF t.ret # None
        THEN [self |-> [self EXCEPT !.partial = t.self], ret |-> t.ret, dropped |-> None,
              got |-> None]
        ELSE IF self.left <= self.right
        THEN [self |-> [self EXCEPT !.right = self.right - 1],
              ret |-> Some(Vectorizer_get(self.vectorizer, self.right - 1, m)),
              dropped |-> None, got |-> Some(self.right - 1)]
        ELSE [self |-> self, ret |-> None, dropped |-> None, got |-> None]

\* Faulty variant: get is called with right as it was before the decrement.
next_back_stale_right(self, m) ==
    LET t == Partial_take_partial(self.partial)
    IN  IF t.ret # None
        THEN [self |-> [self EXCEPT !.partial = t.self], ret |-> t.ret, dropped |-> None,
              got |-> None]
        ELSE IF self.left < self.right
        THEN [self |-> [self EXCEPT !.right = self.right - 1],
              ret |-> Some(Vectorizer_get(self.vectorizer, self.right, m)),
              dropped |-> None, got |-> Some(self.right)]
        ELSE [self |-> self, ret |-> None, dropped |-> None, got |-> None]

\* Faulty variant: the partial is yielded after the main blocks, as next does.
next_back_partial_last(self, m) ==
    IF self.left < self.right
    THEN [self |-> [self EXCEPT !.right = self.right - 1],
          ret |-> Some(Vectorizer_get(self.vectorizer, self.right - 1, m)),
          dropped |-> None, got |-> Some(self.right - 1)]
    ELSE LET t == Partial_take_partial(self.partial)
         IN  [self |-> [self EXCEPT !.partial = t.self],
              ret |-> t.ret,
              dropped |-> None, got |-> None]

\* DoubleEndedIterator::next_back
next_back(self, m) ==
    LET t == Partial_take_partial(self.partial)
    IN  IF t.ret # None
        THEN [self |-> [self EXCEPT !.partial = t.self], ret |-> t.ret, dropped |-> None,
              got |-> None]
        ELSE IF self.left < self.right
        THEN [self |-> [self EXCEPT !.right = self.right - 1],
              ret |-> Some(Vectorizer_get(self.vectorizer, self.right - 1, m)),
              dropped |-> None, got |-> Some(self.right - 1)]
        ELSE [self |-> self, ret |-> None, dropped |-> None, got |-> None]

\* Faulty variant: the partial is not counted.
Iterator_count_main_only(self) ==
    [ret |-> self.right - self.left, dropped |-> self.partial.val, got |-> None]

\* Iterator::count: size_hint().0; the iterator is consumed, so what is left
\* in its partial slot is dropped.
Iterator_count(self) ==
    [ret |-> size_hint(self), dropped |-> self.partial.val, got |-> None]

\* Iterator::last: next_back() on the consumed iterator, which is dropped
\* with what is left in its partial slot.
Iterator_last(self, m) ==
    LET r == next_back(self, m)
    IN  [ret |-> r.ret, dropped |-> r.self.partial.val, got |-> r.got]

----------------------------------------------------------------------------
(* The caller *)

\* Dropping a value of the iterator's item type: a MutProxy writes back, a
\* plain block does nothing.
\* A pair is dropped field by field, each by its side's kind.
RECURSIVE DropItems(_, _, _)
DropItems(kind, xs, m) ==
    IF xs = None THEN m
    ELSE IF kind = "write" THEN MutProxy_drop(xs[1], m)
    ELSE IF kind = "pair"
    THEN DropItems(slice.b.kind, Some(xs[1][2]),
                   DropItems(slice.a.kind, Some(xs[1][1]), m))
    ELSE m

RECURSIVE DropCells(_, _)
DropCells(kind, xs) ==
    IF xs = None THEN {}
    ELSE IF kind = "write" THEN RestoreCells(xs[1])
    ELSE IF kind = "pair"
    THEN DropCells(slice.a.kind, Some(xs[1][1])) \cup DropCells(slice.b.kind, Some(xs[1][2]))
    ELSE {}

\* What a panicking construction leaves behind: the values alive at the
\* panic are dropped one after the other.
Unwound(r) == IF "unwound" \in DOMAIN r THEN r.unwound ELSE << >>

RECURSIVE UnwindMem(_, _)
UnwindMem(xs, m) ==
    IF xs = << >> THEN m
    ELSE UnwindMem(Tail(xs), DropItems(Head(xs).kind, Head(xs).val, m))

UnwindCells(xs) ==
    UNION { DropCells(xs[i].kind, xs[i].val) : i \in DOMAIN xs }

\* The block a returned item stands for: the index get was called with, or
\* the block count for the trailing partial.
BlockCount == slice.len \div lanes
Rest == slice.len % lanes

NoYields == [get |-> [k \in {} |-> 0], partial |-> 0]

\* The history after a call that made the get call `got` (None: no call)
\* and returned `ret`: an item returned without a get call is the partial.
Counted(y, got, ret) ==
    [get |-> IF got = None THEN y.get
             ELSE [k \in DOMAIN y.get \cup {got[1]} |->
                      IF k = got[1]
                      THEN (IF k \in DOMAIN y.get THEN y.get[k] ELSE 0) + 1
                      ELSE y.get[k]],
     partial |-> IF got = None /\ ret # None THEN y.partial + 1 ELSE y.partial]

NoCall == [op |-> "none", n |-> 0, src |-> 0, ret |-> None, dropped |-> None]

Init ==
    \E L \in 1..MaxLanes, f \in Fills, k \in {"read", "write"} :
      \E n \in 0 .. (MaxBlocks * L + L - 1) :
        /\ lanes = L
        /\ mem = InitMem(n, f)
        /\ slice = [kind |-> k, ptr |-> RegionStart, len |-> n]
        /\ pad = None
        /\ pc = "start"
        /\ fault = ""
        /\ iter = None
        /\ held = {}
        /\ wrote = [p \in {} |-> 0]
        /\ written = {}
        /\ last = NoCall
        /\ orig = mem
        /\ yields = NoYields
        /\ fwd = << >>
        /\ bwd = << >>
        /\ owner = << >>

\* The caller constructs the iterator: r is what vectorize / vectorize_pad did.
Construct(r, name, padding) ==
    /\ pc = "start"
    /\ pad' = padding
    /\ pc' = IF r.panic = "" THEN "iter" ELSE "panic"
    /\ fault' = r.panic
    /\ iter' = IF r.panic = "" THEN Some(r.iter) ELSE None
    /\ last' = [NoCall EXCEPT !.op = name]
    /\ mem' = UnwindMem(Unwound(r), mem)
    /\ written' = written \cup UnwindCells(Unwound(r))
    /\ UNCHANGED <<lanes, slice, held, wrote, orig, yields, fwd, bwd, owner>>

Vectorize == Construct(vectorize(slice, mem), "vectorize", None)

VectorizePad(p) == Construct(vectorize_pad(slice, p, mem), "vectorize_pad", Some(p))

\* The caller makes a call on the iterator; r is the method's result and src
\* the block the returned item stands for.  A returned MutProxy is kept by
\* the caller; what the call dropped is written back.
Returned(r, name, n, src) ==
    /\ iter' = Some(r.self)
    /\ mem' = DropItems(slice.kind, r.dropped, mem)
    /\ written' = written \cup DropCells(slice.kind, r.dropped)
    /\ held' = IF slice.kind = "write" /\ r.ret # None
               THEN held \cup {[src |-> src, proxy |-> r.ret[1]]}
               ELSE held
    /\ last' = [op |-> name, n |-> n, src |-> src, ret |-> r.ret, dropped |-> r.dropped]
    /\ yields' = Counted(yields, r.got, r.ret)
    /\ UNCHANGED <<lanes, slice, pad, pc, fault, wrote, orig, owner>>

Call(r, name, n, src) ==
    /\ Returned(r, name, n, src)
    /\ UNCHANGED <<fwd, bwd>>

CallNext ==
    /\ pc = "iter"
    /\ Call(next(iter[1], mem), "next", 0,
            IF iter[1].left < iter[1].right THEN iter[1].left ELSE BlockCount)

CallNextBack ==
    /\ pc = "iter"
    /\ Call(next_back(iter[1], mem), "next_back", 0,
            IF Partial_size(iter[1].partial) = 0 THEN iter[1].right - 1 ELSE BlockCount)

CallNth(n) ==
    /\ pc = "iter"
    /\ Call(nth(iter[1], n, mem), "nth", n,
            IF iter[1].left + n < iter[1].right THEN iter[1].left + n ELSE BlockCount)

\* DerefMut on a held proxy: the caller stores the block b in it (*d = b).
ProxyWrite(h, b) ==
    /\ h \in held
    /\ held' = (held \ {h}) \cup {[h EXCEPT !.proxy.data = b]}
    /\ wrote' = [k \in DOMAIN wrote \cup {h.src} |-> IF k = h.src THEN b ELSE wrote[k]]
    /\ last' = [op |-> "write", n |-> 0, src |-> h.src, ret |-> None, dropped |-> None]
    /\ UNCHANGED <<lanes, mem, slice, pad, pc, fault, iter, written, orig, yields, fwd, bwd, owner>>

\* A held proxy goes out of scope.
ProxyRelease(h) ==
    /\ h \in held
    /\ held' = held \ {h}
    /\ mem' = MutProxy_drop(h.proxy, mem)
    /\ written' = written \cup RestoreCells(h.proxy)
    /\ last' = [op |-> "release", n |-> 0, src |-> h.src, ret |-> None,
                dropped |-> Some(h.proxy)]
    /\ UNCHANGED <<lanes, slice, pad, pc, fault, iter, wrote, orig, yields, fwd, bwd, owner>>

\* The iterator goes out of scope: its partial slot is dropped with it.
DropIter ==
    /\ pc = "iter"
    /\ pc' = "dropped"
    /\ iter' = None
    /\ mem' = DropItems(slice.kind, iter[1].partial.val, mem)
    /\ written' = written \cup DropCells(slice.kind, iter[1].partial.val)
    /\ last' = [op |-> "drop_iter", n |-> 0, src |-> BlockCount, ret |-> None,
                dropped |-> iter[1].partial.val]
    /\ UNCHANGED <<lanes, slice, pad, fault, held, wrote, orig, yields, fwd, bwd, owner>>

\* The caller makes a call that consumes the iterator (count, last): the
\* iterator is gone afterwards and what the call dropped is written back.
Consumed(r, name, n, src) ==
    /\ pc' = "dropped"
    /\ iter' = None
    /\ mem' = DropItems(slice.kind, r.dropped, mem)
    /\ written' = written \cup DropCells(slice.kind, r.dropped)
    /\ yields' = Counted(yields, r.got, IF name = "last" THEN r.ret ELSE None)
    /\ UNCHANGED <<lanes, slice, pad, fault, wrote, orig, fwd, bwd, owner>>

CallCount ==
    /\ pc = "iter"
    /\ LET r == Iterator_count(iter[1])
       IN  /\ Consumed(r, "count", r.ret, BlockCount)
           /\ held' = held
           /\ last' = [op |-> "count", n |-> r.ret, src |-> BlockCount, ret |-> None,
                       dropped |-> r.dropped]

CallLast ==
    /\ pc = "iter"
    /\ LET r == Iterator_last(iter[1], mem)
           src == IF Partial_size(iter[1].partial) = 0
                  THEN iter[1].right - 1 ELSE BlockCount
       IN  /\ Consumed(r, "last", 0, src)
           /\ held' = IF slice.kind = "write" /\ r.ret # None
                      THEN held \cup {[src |-> src, proxy |-> r.ret[1]]}
                      ELSE held
           /\ last' = [op |-> "last", n |-> 0, src |-> src, ret |-> r.ret,
                       dropped |-> r.dropped]

Next ==
    \/ Vectorize
    \/ \E p \in Pads : VectorizePad(p)
    \/ CallNext
    \/ CallNextBack
    \/ \E n \in 0..MaxN : CallNth(n)
    \/ \E h \in held, b \in WriteBlocks : ProxyWrite(h, b)
    \/ \E h \in held : ProxyRelease(h)
    \/ DropIter
    \/ CallCount
    \/ CallLast

Spec == Init /\ [][Next]_vars

\* The caller that uses only the two ends of the iterator, next and
\* next_back, and keeps what each of them has returned.
EndsNext ==
    /\ pc = "iter"
    /\ LET r == next(iter[1], mem)
       IN  /\ Returned(r, "next", 0,
                       IF iter[1].left < iter[1].right THEN iter[1].left ELSE BlockCount)
           /\ fwd' = IF r.ret # None THEN Append(fwd, r.ret[1]) ELSE fwd
           /\ bwd' = bwd

EndsNextBack ==
    /\ pc = "iter"
    /\ LET r == next_back(iter[1], mem)
       IN  /\ Returned(r, "next_back", 0,
                       IF Partial_size(iter[1].partial) = 0
                       THEN iter[1].right - 1 ELSE BlockCount)
           /\ bwd' = IF r.ret # None THEN Append(bwd, r.ret[1]) ELSE bwd
           /\ fwd' = fwd

NextEnds ==
    \/ Vectorize
    \/ \E p \in Pads : VectorizePad(p)
    \/ EndsNext
    \/ EndsNextBack
    \/ \E h \in held, b \in WriteBlocks : ProxyWrite(h, b)
    \/ \E h \in held : ProxyRelease(h)

SpecEnds == Init /\ [][NextEnds]_vars

\* The vectorizer is Send + Sync and Copy: the caller creates it, keeps the
\* trailing partial, and hands every block index to one of two threads.
Threads == {"t1", "t2"}

Share(p, f) ==
    /\ pc = "start"
    /\ LET c == create(slice, Some(p), mem)
       IN  /\ f \in [0 .. (c.len - 1) -> Threads]
           /\ pc' = IF c.panic = "" THEN "shared" ELSE "panic"
           /\ fault' = c.panic
           /\ owner' = [vectorizer |-> c.vectorizer, len |-> c.len, of |-> f]
           /\ held' = IF slice.kind = "write" /\ c.partial # None
                      THEN {[src |-> c.len, proxy |-> c.partial[1]]}
                      ELSE {}
    /\ pad' = Some(p)
    /\ last' = [NoCall EXCEPT !.op = "create"]
    /\ UNCHANGED <<lanes, mem, slice, iter, wrote, written, orig, yields, fwd, bwd>>

\* Thread t calls get with one of its indices, once per index.
ThreadGet(t) ==
    /\ pc = "shared"
    /\ \E k \in DOMAIN owner.of :
        /\ owner.of[k] = t
        /\ k \notin DOMAIN yields.get
        /\ LET x == Vectorizer_get(owner.vectorizer, k, mem)
           IN  /\ held' = IF slice.kind = "write"
                          THEN held \cup {[src |-> k, proxy |-> x]}
                          ELSE held
               /\ yields' = Counted(yields, Some(k), Some(x))
               /\ last' = [op |-> "get", n |-> 0, src |-> k, ret |-> Some(x),
                           dropped |-> None]
    /\ UNCHANGED <<lanes, mem, slice, pad, pc, fault, iter, wrote, written, orig,
                   fwd, bwd, owner>>

NextThreads ==
    \/ \E p \in Pads : \E f \in [0 .. (BlockCount - 1) -> Threads] : Share(p, f)
    \/ \E t \in Threads : ThreadGet(t)
    \/ \E h \in held, b \in WriteBlocks : ProxyWrite(h, b)
    \/ \E h \in held : ProxyRelease(h)

SpecThreads == Init /\ [][NextThreads]_vars

\* Two sources vectorized as a pair, (a, b), with the same vector type on
\* both sides as in tests::iter_mut.  The second source lies behind the first
\* one's guard cells and is followed by guard cells of its own.
SecondStart == RegionStart + MaxLen + MaxLanes
TupleAddrs == 0 .. (SecondStart + MaxLen + MaxLanes)

\* The second source's elements are told from the first one's by an offset.
TupleMem(na, nb, f) ==
    [x \in TupleAddrs |->
        IF RegionStart <= x /\ x < RegionStart + na
        THEN FillValue(f, x - RegionStart)
        ELSE IF SecondStart <= x /\ x < SecondStart + nb
        THEN 50 + FillValue(f, x - SecondStart)
        ELSE -1]

InitTuple ==
    \E L \in 1..MaxLanes, f \in Fills, ka \in {"read", "write"}, kb \in {"read", "write"} :
      \E na \in 0 .. (MaxBlocks * L + L - 1), nb \in 0 .. (MaxBlocks * L + L - 1) :
        /\ lanes = L
        /\ mem = TupleMem(na, nb, f)
        /\ slice = [kind |-> "pair",
                    a |-> [kind |-> ka, ptr |-> RegionStart, len |-> na],
                    b |-> [kind |-> kb, ptr |-> SecondStart, len |-> nb]]
        /\ pad = None
        /\ pc = "start"
        /\ fault = ""
        /\ iter = None
        /\ held = {}
        /\ wrote = [p \in {} |-> 0]
        /\ written = {}
        /\ last = NoCall
        /\ orig = mem
        /\ yields = NoYields
        /\ fwd = << >>
        /\ bwd = << >>
        /\ owner = << >>

\* The loop body of tests::iter_mut: the item of one side is stored to (when
\* it is a proxy and the body chooses to) and goes out of scope.
Stored(kind, x, w) ==
    IF kind = "write" /\ w # None THEN [x EXCEPT !.data = w[1]] ELSE x

\* A call on the pair's iterator: the returned pair is handed to the loop
\* body, which stores w to its mutable sides and lets it go out of scope.
TupleCall(r, name, w) ==
    /\ iter' = Some(r.self)
    /\ mem' = IF r.ret = None THEN mem
              ELSE DropItems("pair",
                             Some(<<Stored(slice.a.kind, r.ret[1][1], w),
                                    Stored(slice.b.kind, r.ret[1][2], w)>>),
                             mem)
    /\ written' = written \cup DropCells("pair", r.ret)
    /\ last' = [op |-> name, n |-> 0, src |-> IF r.got # None THEN r.got[1] ELSE iter[1].right,
                ret |-> r.ret, dropped |-> r.ret]
    /\ yields' = Counted(yields, r.got, r.ret)
    /\ UNCHANGED <<lanes, slice, pad, pc, fault, held, wrote, orig, owner>>

TupleNext(w) ==
    /\ pc = "iter"
    /\ LET r == next(iter[1], mem)
       IN  /\ TupleCall(r, "next", w)
           /\ fwd' = IF r.ret # None THEN Append(fwd, r.ret[1]) ELSE fwd
           /\ bwd' = bwd

TupleNextBack(w) ==
    /\ pc = "iter"
    /\ LET r == next_back(iter[1], mem)
       IN  /\ TupleCall(r, "next_back", w)
           /\ bwd' = IF r.ret # None THEN Append(bwd, r.ret[1]) ELSE bwd
           /\ fwd' = fwd

NextTuple ==
    \/ Vectorize
    \/ \E pa \in Pads, pb \in Pads : VectorizePad(<<pa, pb>>)
    \/ \E w \in {None} \cup {Some(b) : b \in WriteBlocks} : TupleNext(w)
    \/ \E w \in {None} \cup {Some(b) : b \in WriteBlocks} : TupleNextBack(w)

SpecTuple == InitTuple /\ [][NextTuple]_vars

----------------------------------------------------------------------------
(* What the claims speak of *)

RegionCells == slice.ptr .. (slice.ptr + slice.len - 1)

\* Lane j of block k is element k * lanes + (j - 1) of the region.
ExpectedBlock(k, m) == [j \in 1..lanes |-> m[slice.ptr + k * lanes + (j - 1)]]

\* The trailing partial: the region's last Rest elements, then the padding's lanes.
ExpectedPartial(m) ==
    [j \in 1..lanes |->
        IF j <= Rest THEN m[slice.ptr + (slice.len - Rest) + (j - 1)] ELSE pad[1][j]]

\* The block value of a yielded item: the item itself, or the proxy's local block.
Content(x) == IF slice.kind = "read" THEN x ELSE x.data

\* The items repeated next calls yield before the first None, each one
\* released (unchanged) before the following call.
RECURSIVE Drain(_, _)
Drain(self, m) ==
    LET r == next(self, m)
    IN  IF r.ret = None THEN << >>
        ELSE <<r.ret[1]>> \o Drain(r.self, DropItems(slice.kind, r.ret, m))

\* The same for repeated next_back calls.
RECURSIVE DrainBack(_, _)
DrainBack(self, m) ==
    LET r == next_back(self, m)
    IN  IF r.ret = None THEN << >>
        ELSE <<r.ret[1]>> \o DrainBack(r.self, DropItems(slice.kind, r.ret, m))

Reverse(q) == [i \in 1..Len(q) |-> q[Len(q) + 1 - i]]

IterDone == pc = "dropped" \/ (pc = "iter" /\ size_hint(iter[1]) = 0)

----------------------------------------------------------------------------
(* Claims *)

\* C1: on the mutable path with padding, no cell outside the region is ever
\* stored to or changed, and once every yielded proxy (all full blocks and
\* the trailing partial) has been overwritten and released, element i of the
\* region holds the value stored in lane (i mod L) of block (i div L).
C1_MutateAllFlushesInBounds ==
    (slice.kind = "write" /\ pad # None) =>
        /\ written \subseteq RegionCells
        /\ \A a \in Addrs \ RegionCells : mem[a] = -1
        /\ (/\ IterDone
            /\ held = {}
            /\ DOMAIN wrote = 0 .. ((slice.len + lanes - 1) \div lanes - 1))
           => \A i \in 0 .. (slice.len - 1) :
                 mem[slice.ptr + i] = wrote[i \div lanes][(i % lanes) + 1]

C1_Witness ==
    /\ slice.kind = "write" /\ pad # None /\ IterDone /\ held = {}
    /\ Rest # 0 /\ BlockCount >= 2
    /\ DOMAIN wrote = 0 .. BlockCount
    /\ written = RegionCells

\* C2: vectorize_pad iterated forward yields floor(len / L) full blocks, then
\* exactly one partial when len mod L # 0 and none when it is 0; the
\* partial's first len mod L lanes are the region's tail and its other lanes
\* are the supplied padding's.
C2_PaddedForwardPass ==
    (pc = "iter" /\ last.op = "vectorize_pad") =>
        LET d == Drain(iter[1], mem)
        IN  /\ Len(d) = BlockCount + (IF Rest # 0 THEN 1 ELSE 0)
            /\ \A k \in 0 .. (BlockCount - 1) : Content(d[k + 1]) = ExpectedBlock(k, mem)
            /\ Rest # 0 => Content(d[BlockCount + 1]) = ExpectedPartial(mem)

C2_Witness ==
    /\ pc = "iter" /\ last.op = "vectorize_pad" /\ slice.kind = "read"
    /\ Rest = 2 /\ BlockCount = 2
    /\ pad = Some([j \in 1..lanes |-> 90 + j])
    /\ Drain(iter[1], mem)[3] = <<6, 7, 93>>

\* C3: for a region whose length is a multiple of the lane count, vectorize
\* succeeds and yields exactly len / L blocks and no partial; lane j of block
\* k is element k * L + j, so the blocks concatenated are the region.
C3_AlignedVectorize ==
    (last.op = "vectorize" /\ Rest = 0) =>
        /\ pc = "iter"
        /\ iter[1].partial = UnitPartial
        /\ LET d == Drain(iter[1], mem)
           IN  /\ Len(d) * lanes = slice.len
               /\ \A i \in 0 .. (slice.len - 1) :
                     Content(d[(i \div lanes) + 1])[(i % lanes) + 1] = mem[slice.ptr + i]

C3_Witness ==
    /\ last.op = "vectorize" /\ pc = "iter" /\ slice.kind = "read"
    /\ lanes = 3 /\ slice.len = 6
    /\ Drain(iter[1], mem) = << <<0, 1, 2>>, <<3, 4, 5>> >>

\* C4: for a region (read-only or mutable) whose length is not a multiple of
\* the lane count, vectorize fails with create's own fault; no iterator
\* exists then, nothing was yielded, and nothing happens afterwards.  An
\* unpadded iterator never stands for a region with a tail.
C4_UnalignedVectorizeFails ==
    /\ (last.op = "vectorize" /\ Rest # 0) =>
          /\ pc = "panic"
          /\ fault = "Data to vectorize not divisible by lanes"
    /\ pc = "panic" =>
          /\ iter = None /\ held = {} /\ written = {}
          /\ last.op \in {"vectorize", "vectorize_pad"} /\ last.ret = None
    /\ (iter # None /\ pad = None) => Rest = 0

C4_Witness ==
    /\ pc = "panic" /\ last.op = "vectorize" /\ slice.kind = "write"
    /\ slice.len = 5 /\ lanes = 2

\* The item get(k) stands for: block k of the region, and for the mutable
\* path the proxy holding it with the block's own cells to restore.
ExpectedItem(k, m) ==
    IF slice.kind = "read" THEN ExpectedBlock(k, m)
    ELSE [data |-> ExpectedBlock(k, m),
          restore |-> [ptr |-> slice.ptr + k * lanes, len |-> lanes]]

\* The state after n next calls whose results are discarded.
RECURSIVE SkipByNext(_, _, _)
SkipByNext(self, m, n) ==
    IF n = 0 THEN [self |-> self, mem |-> m]
    ELSE LET r == next(self, m)
         IN  SkipByNext(r.self, DropItems(slice.kind, r.ret, m), n - 1)

\* Memory with the first `count` lanes of `data` stored at block k's cells.
Flushed(m, k, data, count) ==
    [a \in DOMAIN m |->
        LET off == a - (slice.ptr + k * lanes)
        IN  IF 0 <= off /\ off < count THEN data[off + 1] ELSE m[a]]

\* C5: in every iterator state left <= right, and the exact size
\* (right - left) + (1 if the partial slot is occupied) is the number of
\* elements repeated next calls still yield.
C5_ExactSize ==
    pc = "iter" =>
        /\ iter[1].left <= iter[1].right
        /\ size_hint(iter[1]) =
              (iter[1].right - iter[1].left) + (IF iter[1].partial.val # None THEN 1 ELSE 0)
        /\ size_hint(iter[1]) = Len(Drain(iter[1], mem))

C5_Witness ==
    /\ pc = "iter" /\ last.op = "nth" /\ last.n = 0 /\ last.ret # None
    /\ iter[1].left < iter[1].right /\ iter[1].partial.val # None
    /\ size_hint(iter[1]) = 2

\* C6: in every iterator state and for every n, nth(n) returns what n
\* discarded next calls followed by one more next return, and leaves the
\* same iterator (left, right, partial slot) and the same memory.
C6_NthIsRepeatedNext ==
    pc = "iter" =>
        \A n \in 0 .. (MaxN + 1) :
            LET a == nth(iter[1], n, mem)
                s == SkipByNext(iter[1], mem, n)
                b == next(s.self, s.mem)
            IN  /\ a.ret = b.ret
                /\ a.self = b.self
                /\ DropItems(slice.kind, a.dropped, mem) = s.mem

C6_Witness ==
    /\ pc = "iter" /\ last.op = "nth" /\ last.n >= 1 /\ last.ret # None
    /\ last.src = BlockCount /\ BlockCount >= 1

\* C7 as stated: with a partial present, nth(n) for n >= right - left
\* returns None and leaves the slot empty and left = right.
C7_NthAtOrPastEndSkipsPartial ==
    [][(/\ pc = "iter" /\ last'.op = "nth"
        /\ iter[1].partial.val # None
        /\ last'.n >= iter[1].right - iter[1].left)
       => (/\ last'.ret = None
           /\ iter'[1].partial.val = None
           /\ iter'[1].left = iter'[1].right)]_vars

\* C7 amended: with a partial present, nth(n) for n > right - left returns
\* None and consumes the partial without yielding it; for n = right - left
\* it yields the partial.  Either way the slot is empty and left = right
\* afterwards.
C7_NthPastEndSkipsPartial ==
    [][(/\ pc = "iter" /\ last'.op = "nth"
        /\ iter[1].partial.val # None
        /\ last'.n >= iter[1].right - iter[1].left)
       => (/\ iter'[1].partial.val = None
           /\ iter'[1].left = iter'[1].right
           /\ iter'[1].right = iter[1].right
           /\ last'.n > iter[1].right - iter[1].left
                 => (last'.ret = None /\ last'.dropped = iter[1].partial.val)
           /\ last'.n = iter[1].right - iter[1].left
                 => (last'.ret = iter[1].partial.val /\ last'.dropped = None))]_vars

C7_Witness ==
    /\ pc = "iter" /\ last.op = "nth" /\ last.ret = None
    /\ last.dropped # None /\ last.n = BlockCount + 1 /\ BlockCount >= 1
    /\ iter[1].left = iter[1].right /\ iter[1].partial.val = None

\* C8: next yields get(left) and increments left when left < right, leaving
\* the partial alone; otherwise it yields and empties the partial slot when a
\* partial is present; otherwise it returns None and changes nothing.  After
\* next has yielded the partial nothing is left to yield.
C8_ForwardStep ==
    [][(pc = "iter" /\ last'.op = "next") =>
        IF iter[1].left < iter[1].right
        THEN /\ last'.ret = Some(ExpectedItem(iter[1].left, mem))
             /\ iter'[1] = [iter[1] EXCEPT !.left = iter[1].left + 1]
        ELSE IF iter[1].partial.val # None
        THEN /\ last'.ret = iter[1].partial.val
             /\ iter'[1] = [iter[1] EXCEPT !.partial.val = None]
             /\ size_hint(iter'[1]) = 0
        ELSE /\ last'.ret = None
             /\ iter' = iter]_vars

C8_Witness ==
    /\ pc = "iter" /\ last.op = "next" /\ last.ret # None
    /\ last.src = BlockCount /\ BlockCount = 2 /\ Rest # 0
    /\ iter[1].left = 2 /\ iter[1].partial.val = None

\* C9: next_back yields and consumes the partial first when one is present,
\* otherwise decrements right and yields get(right) when left < right,
\* otherwise returns None; and iterating backward to completion yields the
\* reverse of what iterating forward to completion yields.
C9_BackwardStep ==
    /\ [](pc = "iter" => DrainBack(iter[1], mem) = Reverse(Drain(iter[1], mem)))
    /\ [][(pc = "iter" /\ last'.op = "next_back") =>
            IF iter[1].partial.val # None
            THEN /\ last'.ret = iter[1].partial.val
                 /\ iter'[1] = [iter[1] EXCEPT !.partial.val = None]
            ELSE IF iter[1].left < iter[1].right
            THEN /\ last'.ret = Some(ExpectedItem(iter[1].right - 1, mem))
                 /\ iter'[1] = [iter[1] EXCEPT !.right = iter[1].right - 1]
            ELSE /\ last'.ret = None
                 /\ iter' = iter]_vars

C9_Witness ==
    /\ pc = "iter" /\ last.op = "next_back" /\ last.ret # None
    /\ last.src = 0 /\ BlockCount = 2 /\ Rest # 0 /\ pad # None
    /\ iter[1].left = 0 /\ iter[1].right = 0 /\ iter[1].partial.val = None

\* C10: a store through a held proxy leaves the region as it is; memory
\* changes only when a proxy is released, and then exactly the first
\* restore.len() lanes of its local block are copied to the cells it was read
\* from: LANES lanes for a full block, len mod LANES for the trailing partial.
C10_WriteBackAtRelease ==
    [][IF slice.kind = "write" /\ last'.dropped # None
       THEN mem' = Flushed(mem, last'.src, last'.dropped[1].data,
                           IF last'.src < BlockCount THEN lanes ELSE Rest)
       ELSE mem' = mem]_vars

C10_Witness ==
    /\ slice.kind = "write" /\ last.op = "release" /\ last.src = BlockCount
    /\ Rest = 1 /\ lanes = 3
    /\ last.dropped[1].data \in WriteBlocks
    /\ mem[slice.ptr + slice.len - 1] = 71
    /\ \E h \in held : h.proxy.data \in WriteBlocks /\ mem[h.proxy.restore.ptr] # 71

----------------------------------------------------------------------------
(* Claims about dropping, exhaustion and the two ends *)

\* The memory after the forward pass is replayed with every item released
\* unchanged.
RECURSIVE DrainMem(_, _)
DrainMem(self, m) ==
    LET r == next(self, m)
    IN  IF r.ret = None THEN m
        ELSE DrainMem(r.self, DropItems(slice.kind, r.ret, m))

\* Whether a proxy for block k was stored to by the caller and then released.
Flushes(k) == k \in DOMAIN wrote /\ \A h \in held : h.src # k

\* The trailing partial as an item of the forward sequence.
ExpectedPartialItem(m) ==
    IF slice.kind = "read" THEN ExpectedPartial(m)
    ELSE [data |-> ExpectedPartial(m),
          restore |-> [ptr |-> slice.ptr + (slice.len - Rest), len |-> Rest]]

\* The forward sequence of the source: its full blocks, then the partial.
ForwardSeq ==
    [k \in 1 .. (BlockCount + (IF pad # None /\ Rest # 0 THEN 1 ELSE 0)) |->
        IF k <= BlockCount THEN ExpectedItem(k - 1, orig) ELSE ExpectedPartialItem(orig)]

\* C11: on the mutable path, whatever is dropped and whenever (the iterator
\* after any calls, proxies written to or not, a skipped or unconsumed
\* partial), an element of the region holds the lane the caller stored for it
\* when its proxy was written to and released, and its original value in
\* every other case.
C11_DropIsSafe ==
    slice.kind = "write" =>
        \A i \in 0 .. (slice.len - 1) :
            mem[slice.ptr + i] =
                IF Flushes(i \div lanes)
                THEN wrote[i \div lanes][(i % lanes) + 1]
                ELSE orig[slice.ptr + i]

C11_Witness ==
    /\ slice.kind = "write" /\ pc = "dropped" /\ last.op = "drop_iter"
    /\ last.dropped # None /\ BlockCount = 2
    /\ DOMAIN yields.get = {0} /\ Flushes(0) /\ held = {}
    /\ mem[slice.ptr] = 71 /\ mem[slice.ptr + slice.len - 1] = slice.len - 1

\* C12: once left = right and the partial slot is empty, every call of next,
\* next_back or nth returns None, leaves the iterator as it is and makes no
\* get call.
C12_Fused ==
    [][(/\ pc = "iter" /\ last'.op \in {"next", "next_back", "nth"}
        /\ iter[1].left = iter[1].right /\ iter[1].partial.val = None)
       => (/\ last'.ret = None
           /\ iter' = iter
           /\ yields' = yields
           /\ mem' = mem /\ held' = held)]_vars

C12_Witness ==
    /\ pc = "iter" /\ last.op = "next_back" /\ last.ret = None
    /\ iter[1].left = iter[1].right /\ iter[1].partial.val = None
    /\ BlockCount = 2 /\ DOMAIN yields.get = {0, 1} /\ yields.partial = 1

\* C17: get is called only with indices in [0, N) and at most once with
\* each, the partial is yielded at most once, and no two proxies for the
\* same block exist.
C17_GetOncePerIndex ==
    slice.kind \in {"read", "write"} =>
        /\ \A k \in DOMAIN yields.get :
              0 <= k /\ k < BlockCount /\ yields.get[k] <= 1
        /\ yields.partial <= 1
        /\ \A h1 \in held, h2 \in held : h1.src = h2.src => h1 = h2

C17_Witness ==
    /\ slice.kind = "write" /\ pc = "iter" /\ last.op = "nth" /\ last.ret # None
    /\ BlockCount = 2 /\ DOMAIN yields.get = {0, 1} /\ yields.partial = 1
    /\ Cardinality(held) = 3

\* C18: when only next and next_back are called, in any order, what next has
\* returned is a prefix of the forward sequence in order and what next_back
\* has returned is a suffix of it in reverse order; the two never overlap,
\* and when both return None they make up the whole sequence, N + p items.
C18_TwoEnds ==
    pc = "iter" =>
        LET F == ForwardSeq
        IN  /\ Len(fwd) + Len(bwd) <= Len(F)
            /\ fwd = SubSeq(F, 1, Len(fwd))
            /\ bwd = Reverse(SubSeq(F, Len(F) - Len(bwd) + 1, Len(F)))
            /\ size_hint(iter[1]) = 0 => Len(fwd) + Len(bwd) = Len(F)

C18_Witness ==
    /\ pc = "iter" /\ size_hint(iter[1]) = 0 /\ last.ret = None
    /\ BlockCount = 2 /\ Rest # 0 /\ Len(fwd) = 1 /\ Len(bwd) = 2

\* C19: count returns the number of items repeated next calls would yield
\* and makes no get call; last returns the final item of the forward pass,
\* None exactly when the iterator is exhausted; and both leave the memory
\* that the replayed forward pass with unmodified proxies leaves.
C19_CountAndLast ==
    pc = "iter" =>
        LET c == Iterator_count(iter[1])
            l == Iterator_last(iter[1], mem)
            d == Drain(iter[1], mem)
        IN  /\ c.ret = Len(d)
            /\ c.got = None
            /\ l.ret = (IF d = << >> THEN None ELSE Some(d[Len(d)]))
            /\ (l.ret = None) <=> (size_hint(iter[1]) = 0)
            /\ DropItems(slice.kind, c.dropped, mem) = DrainMem(iter[1], mem)
            /\ DropItems(slice.kind, l.ret, DropItems(slice.kind, l.dropped, mem))
                  = DrainMem(iter[1], mem)

C19_Witness ==
    /\ slice.kind = "write" /\ last.op = "count" /\ last.n = 2
    /\ last.dropped # None /\ BlockCount = 2 /\ DOMAIN yields.get = {0}

----------------------------------------------------------------------------
(* Claims about threads sharing a vectorizer *)

\* The cells get(k) reads and its proxy stores back to.
Footprint(k) == RestoreCells(WriteVectorizer_get(owner.vectorizer, k, mem))

\* The trailing partial proxy create built, if any.
SharedPartial == create(slice, pad, orig).partial

PartialFootprint ==
    IF SharedPartial = None THEN {} ELSE RestoreCells(SharedPartial[1])

\* The blocks (owner.len: the partial) whose proxy was obtained and released.
Performed ==
    { k \in 0 .. owner.len :
        /\ IF k = owner.len THEN SharedPartial # None ELSE k \in DOMAIN yields.get
        /\ \A h \in held : h.src # k }

\* The update of block k done alone on memory m: get, the caller's store if
\* it made one, release.
SerialStep(m, k) ==
    LET x == IF k = owner.len THEN SharedPartial[1]
             ELSE WriteVectorizer_get(owner.vectorizer, k, m)
    IN  MutProxy_drop([x EXCEPT !.data = IF k \in DOMAIN wrote THEN wrote[k] ELSE x.data],
                      m)

RECURSIVE SerialRun(_, _)
SerialRun(m, order) ==
    IF order = << >> THEN m
    ELSE SerialRun(SerialStep(m, Head(order)), Tail(order))

Orders(S) ==
    { q \in [1 .. Cardinality(S) -> S] : \A a, b \in DOMAIN q : q[a] = q[b] => a = b }

\* C16: on a mutable vectorizer the cells of distinct block indices are
\* disjoint from each other and from the partial's restore region, and under
\* every interleaving of two threads that get disjoint index sets, store and
\* release, the memory is what the same per-block updates give when they are
\* performed one after the other in any order.
C16_DisjointBlocks ==
    (pc = "shared" /\ slice.kind = "write") =>
        /\ \A i \in 0 .. (owner.len - 1) :
              /\ Footprint(i) \cap PartialFootprint = {}
              /\ \A j \in 0 .. (owner.len - 1) :
                    i # j => Footprint(i) \cap Footprint(j) = {}
        /\ \A q \in Orders(Performed) : SerialRun(orig, q) = mem

C16_Witness ==
    /\ pc = "shared" /\ slice.kind = "write" /\ lanes = 2
    /\ owner.len = 2 /\ owner.of[0] # owner.of[1]
    /\ Performed = 0 .. 2 /\ DOMAIN wrote = {0, 1}
    /\ mem[slice.ptr] = 71 /\ mem[slice.ptr + 3] = 72 /\ mem[slice.ptr + 4] = 4

----------------------------------------------------------------------------
(* Claims about pairs of sources *)

CountA == slice.a.len \div lanes
CountB == slice.b.len \div lanes
RestA == slice.a.len % lanes
RestB == slice.b.len % lanes

\* The padding the pair hands to its side s (1: a, 2: b).
SidePad(s) == IF pad = None THEN None ELSE Some(pad[1][s])

\* The iterator over one side alone, constructed the way the pair was.
SideIter(side, p) ==
    IF p = None THEN vectorize(side, orig).iter
    ELSE vectorize_pad(side, p[1], orig).iter

\* What repeated next (next_back) calls yield on an iterator over a source
\* of the given kind whose items are released unchanged.
RECURSIVE DrainOf(_, _, _)
DrainOf(kind, self, m) ==
    LET r == next(self, m)
    IN  IF r.ret = None THEN << >>
        ELSE <<r.ret[1]>> \o DrainOf(kind, r.self, DropItems(kind, r.ret, m))

RECURSIVE DrainBackOf(_, _, _)
DrainBackOf(kind, self, m) ==
    LET r == next_back(self, m)
    IN  IF r.ret = None THEN << >>
        ELSE <<r.ret[1]>> \o DrainBackOf(kind, r.self, DropItems(kind, r.ret, m))

Zip(p, q) == [k \in 1 .. Len(p) |-> <<p[k], q[k]>>]

\* C13: a pair whose sides have different block counts fails at
\* construction, with the length fault when both sides' create succeed; an
\* iterator over a pair exists only when the block counts are equal.
C13_EqualBlockCounts ==
    /\ pc = "iter" => (CountA = CountB /\ iter[1].right <= CountA)
    /\ (pc # "start" /\ CountA # CountB) =>
          /\ pc = "panic"
          /\ fault \in {LengthFault, "Data to vectorize not divisible by lanes"}
          /\ pad # None => fault = LengthFault

C13_Witness ==
    /\ pc = "panic" /\ fault = LengthFault /\ pad # None
    /\ CountA = 2 /\ CountB = 1 /\ RestA = 0 /\ RestB # 0

\* C14 as stated: a pair for which both sides are given a padding, or
\* neither is, and whose block counts are equal is never rejected with the
\* padding-asymmetry fault.
C14_AsymmetryOnlyWhenOneSidePads ==
    (/\ pc = "panic"
     /\ pad = None \/ Len(pad[1]) = 2
     /\ CountA = CountB)
    => fault # AsymmetryFault

\* C14 amended: the padding-asymmetry fault is raised exactly when a padding
\* pair is supplied, the block counts are equal and exactly one side has a
\* remainder; a pair constructed without padding is never rejected with it.
C14_AsymmetryWhenOneSideHasRemainder ==
    pc # "start" =>
        ((pc = "panic" /\ fault = AsymmetryFault)
            <=> (pad # None /\ CountA = CountB /\ ((RestA = 0) # (RestB = 0))))

C14_Witness ==
    /\ pc = "panic" /\ fault = AsymmetryFault /\ pad # None
    /\ lanes = 2 /\ slice.a.len = 4 /\ slice.b.len = 5

\* C15: the k-th pair yielded, forward or backward, is the pair of the k-th
\* items each side yields alone; the pair's get(idx) is the pair of the
\* sides' get(idx); the pair's partial is present exactly when both sides'
\* partials are, and is the pair of them.
C15_Lockstep ==
    pc = "iter" =>
        LET ia == SideIter(slice.a, SidePad(1))
            ib == SideIter(slice.b, SidePad(2))
            ca == create(slice.a, SidePad(1), orig)
            cb == create(slice.b, SidePad(2), orig)
            cj == create(slice, pad, orig)
        IN  /\ fwd = SubSeq(Zip(DrainOf(slice.a.kind, ia, orig),
                                DrainOf(slice.b.kind, ib, orig)), 1, Len(fwd))
            /\ bwd = SubSeq(Zip(DrainBackOf(slice.a.kind, ia, orig),
                                DrainBackOf(slice.b.kind, ib, orig)), 1, Len(bwd))
            /\ \A idx \in 0 .. (cj.len - 1) :
                  Vectorizer_get(cj.vectorizer, idx, mem)
                    = <<Vectorizer_get(ca.vectorizer, idx, mem),
                        Vectorizer_get(cb.vectorizer, idx, mem)>>
            /\ (cj.partial # None) <=> (ca.partial # None /\ cb.partial # None)
            /\ cj.partial # None => cj.partial[1] = <<ca.partial[1], cb.partial[1]>>

C15_Witness ==
    /\ pc = "iter" /\ size_hint(iter[1]) = 0
    /\ slice.a.kind = "read" /\ slice.b.kind = "write"
    /\ CountA = 2 /\ RestA # 0 /\ RestB # 0 /\ RestA # RestB
    /\ Len(fwd) = 2 /\ Len(bwd) = 1
    /\ pad # None /\ pad[1][1] # pad[1][2]
    /\ fwd[1][2].data[1] = orig[SecondStart] /\ mem[SecondStart] = 71

\* C20: when the construction of a pair fails, every region is left with
\* its original contents, also when a trailing write-back proxy had been
\* built for a side and is released by the failure.
C20_FailedPairRestores ==
    (pc = "panic" /\ slice.kind = "pair") => mem = orig

C20_Witness ==
    /\ pc = "panic" /\ fault = LengthFault
    /\ slice.a.kind = "write" /\ CountA = 2 /\ RestA # 0
    /\ written # {} /\ written \subseteq (RegionStart + CountA * lanes) ..
                                          (RegionStart + slice.a.len - 1)
    /\ mem[RegionStart + slice.a.len - 1] = slice.a.len - 1

====
